---- MODULE Spec2Model ----
(***************************************************************************)
(* A model of the blend file reader (src/reader.go, src/format.go).        *)
(*                                                                         *)
(* Bytes are the integers 0..255.  A Go byte slice made by make([]byte, n) *)
(* and then partly overwritten by one Read call is kept as the record      *)
(* [read |-> the bytes Read stored, len |-> n]: its bytes are `read`       *)
(* followed by len - Len(read) zero bytes.  An optional pointer is a       *)
(* sequence of length 0 (nil) or 1.                                        *)
(***************************************************************************)
EXTENDS Integers, Sequences, FiniteSets, TLC

\* ------------------------------------------------------------------ bounds

MaxBlocks == 2
MaxPayload == 1
MaxCut == 1

\* ------------------------------------------------------ program constants

HeaderLen == 12
IdentifierLen == 7
BlockHeaderLen64 == 24
BlockHeaderLen32 == 20
Underscore == 95
Capital_V == 86

\* "BLENDER", the identifier readHeader compares with.
BLENDER == <<66, 76, 69, 78, 68, 69, 82>>

\* "DNA1", the code readSDNA looks up.
DNA1 == <<68, 78, 65, 49>>

\* ------------------------------------------------------------- byte slices

Min(a, b) == IF a < b THEN a ELSE b

\* make([]byte, n) of which the first Len(bs) bytes were written.
Slice(bs, n) == [read |-> bs, len |-> n]

\* s[i-1] in Go: the i-th byte of a slice (1-based).
At(s, i) == IF i <= Len(s.read) THEN s.read[i] ELSE 0

\* s[from-1 : to] in Go, as a sequence of bytes.
Field(s, from, to) == [i \in 1..(to - from + 1) |-> At(s, from + i - 1)]

Reverse(bs) == [i \in 1..Len(bs) |-> bs[Len(bs) + 1 - i]]

RECURSIVE BigEndianValue(_)
BigEndianValue(bs) ==
    IF bs = <<>> THEN 0
    ELSE 256 * BigEndianValue(SubSeq(bs, 1, Len(bs) - 1)) + bs[Len(bs)]

\* The digits of an unsigned integer, most significant byte first
\* (binary.ByteOrder.Uint32 / Uint64 up to the value of the digits).
Digits(order, bs) == IF order = "BigEndian" THEN bs ELSE Reverse(bs)

\* order.Uint32(bs): every byte of the model is below 128, so the value is
\* below 2^31.
Uint32(order, bs) == BigEndianValue(Digits(order, bs))

\* ----------------------------------------------------------------- readers

\* readNextBytes on a reader holding the bytes of slice src, p of them
\* already consumed.  kind "Buffer" is bytes.Buffer and os.File (a Read of
\* zero bytes at the end succeeds), kind "Reader" is bytes.Reader (any Read
\* at the end is io.EOF).  One Read call is made: it stores
\* min(n, remaining) bytes and the rest of the slice stays zero.
readNextBytes(kind, src, p, n) ==
    LET avail == src.len - p
        k == Min(n, avail)
    IN  IF avail <= 0 /\ (n > 0 \/ kind = "Reader")
        THEN [bytes |-> Slice(<<>>, n), err |-> "EOF", pos |-> p]
        ELSE [bytes |-> Slice(Field(src, p + 1, p + k), n), err |-> "nil",
              pos |-> p + k]

\* read(r, n, order, data): the n bytes binary.Read decodes into data.  The
\* buffer always holds n bytes, so binary.Read itself cannot fail on the
\* fixed-size targets used here.
read(kind, src, p, n) == readNextBytes(kind, src, p, n)

\* byteSliceToString: the bytes before the first NUL.
RECURSIVE byteSliceToString(_)
byteSliceToString(s) ==
    IF s = <<>> \/ s[1] = 0 THEN <<>>
    ELSE <<s[1]>> \o byteSliceToString(Tail(s))

\* ------------------------------------------------------------------ header

\* binary.Read(buffer, order, &header) for FileHeader: byte fields only, so
\* the byte order plays no part.
DecodeFileHeader(data) ==
    [Identifier  |-> Field(data, 1, IdentifierLen),
     PointerSize |-> At(data, 8),
     Endianness  |-> At(data, 9),
     Version     |-> Field(data, 10, 12)]

\* data[8] == 'V' in readHeader.
OrderOf(data) == IF At(data, 9) = Capital_V THEN "BigEndian" ELSE "LittleEndian"

\* PointerSizeOf with the two sentinels confused: '-' taken for 32 bits.
PointerSizeOfDash(hdr) == IF hdr.PointerSize = 45 THEN 32 ELSE 64

\* header.PointerSize == '_' in readHeader.
PointerSizeOf(hdr) == IF hdr.PointerSize = Underscore THEN 32 ELSE 64

\* readHeader without the comparison of the identifier.
readHeaderNoIdentifierCheck(src, p) ==
    LET rb == readNextBytes("Buffer", src, p, HeaderLen)
        hdr == DecodeFileHeader(rb.bytes)
    IN  IF rb.err # "nil"
        THEN [err |-> rb.err, pos |-> rb.pos, header |-> <<>>,
              order |-> "nil", pointerSize |-> 0]
        ELSE [err |-> "nil", pos |-> rb.pos, header |-> <<hdr>>,
              order |-> OrderOf(rb.bytes), pointerSize |-> PointerSizeOf(hdr)]

\* readHeader without the assignment f.order = order.
readHeaderOrderUnset(src, p) ==
    LET rb == readNextBytes("Buffer", src, p, HeaderLen)
        hdr == DecodeFileHeader(rb.bytes)
    IN  IF rb.err # "nil"
        THEN [err |-> rb.err, pos |-> rb.pos, header |-> <<>>,
              order |-> "nil", pointerSize |-> 0]
        ELSE IF hdr.Identifier # BLENDER
        THEN [err |-> "invalid identifier", pos |-> rb.pos, header |-> <<>>,
              order |-> "nil", pointerSize |-> 0]
        ELSE [err |-> "nil", pos |-> rb.pos, header |-> <<hdr>>,
              order |-> "nil", pointerSize |-> PointerSizeOf(hdr)]

\* File.readHeader on a fresh File: what it returns and stores.
readHeader(src, p) ==
    LET rb == readNextBytes("Buffer", src, p, HeaderLen)
        hdr == DecodeFileHeader(rb.bytes)
    IN  IF rb.err # "nil"
        THEN [err |-> rb.err, pos |-> rb.pos, header |-> <<>>,
              order |-> "nil", pointerSize |-> 0]
        ELSE IF hdr.Identifier # BLENDER
        THEN [err |-> "invalid identifier", pos |-> rb.pos, header |-> <<>>,
              order |-> "nil", pointerSize |-> 0]
        ELSE [err |-> "nil", pos |-> rb.pos, header |-> <<hdr>>,
              order |-> OrderOf(rb.bytes), pointerSize |-> PointerSizeOf(hdr)]

\* ------------------------------------------------------------ block headers

DecodeBlockHeader64(order, data) ==
    [Code             |-> Field(data, 1, 4),
     Size             |-> Uint32(order, Field(data, 5, 8)),
     OldMemoryAddress |-> Digits(order, Field(data, 9, 16)),
     SDNAIndex        |-> Uint32(order, Field(data, 17, 20)),
     Count            |-> Uint32(order, Field(data, 21, 24))]

DecodeBlockHeader32(order, data) ==
    [Code             |-> Field(data, 1, 4),
     Size             |-> Uint32(order, Field(data, 5, 8)),
     OldMemoryAddress |-> Digits(order, Field(data, 9, 12)),
     SDNAIndex        |-> Uint32(order, Field(data, 13, 16)),
     Count            |-> Uint32(order, Field(data, 17, 20))]

\* ----------------------------------------------------------- block catalog

\* A map[string]FileBlock: nil until NewFile makes it.
NilMap == [alloc |-> FALSE, m |-> <<>>]
MakeMap == [alloc |-> TRUE, m |-> <<>>]

\* m[k] = v on a Go map: one entry per key, a later value replaces the earlier.
MapPut(fb, k, v) ==
    [alloc |-> fb.alloc,
     m |-> [x \in (DOMAIN fb.m) \cup {k} |-> IF x = k THEN v ELSE fb.m[x]]]

\* File.read without the check of the byte order.
File_readNoOrderCheck(ord, src, p, n) ==
    LET rb == read("Buffer", src, p, n)
    IN  [panic |-> FALSE, err |-> rb.err, bytes |-> rb.bytes, pos |-> rb.pos]

\* File.read: panics while the byte order is nil, else read(f.r, n, ...).
File_read(ord, src, p, n) ==
    IF ord = "nil"
    THEN [panic |-> TRUE, err |-> "nil", bytes |-> Slice(<<>>, n), pos |-> p]
    ELSE LET rb == read("Buffer", src, p, n)
         IN  [panic |-> FALSE, err |-> rb.err, bytes |-> rb.bytes, pos |-> rb.pos]

\* readFileBlockHeader64: 24 bytes decoded in the file's byte order.
readFileBlockHeader64(ord, src, p) ==
    LET r == File_read(ord, src, p, BlockHeaderLen64)
    IN  [panic |-> r.panic, err |-> r.err, pos |-> r.pos,
         header |-> DecodeBlockHeader64(ord, r.bytes)]

\* readFileBlockHeader32: 20 bytes decoded in the file's byte order.
readFileBlockHeader32(ord, src, p) ==
    LET r == File_read(ord, src, p, BlockHeaderLen32)
    IN  [panic |-> r.panic, err |-> r.err, pos |-> r.pos,
         header |-> DecodeBlockHeader32(ord, r.bytes)]

\* The map getFileBlockData reads: fileBlocks64 for pointer size 64, else
\* fileBlocks32.  Reading a nil map finds nothing.
BlocksOf(ps, fb64, fb32) == IF ps = 64 THEN fb64.m ELSE fb32.m

\* getFileBlockData ignoring the ok of the map read: a missing block is the
\* zero FileBlock, whose data is empty.
getFileBlockDataIgnoreOk(ps, fb64, fb32, name) ==
    LET m == BlocksOf(ps, fb64, fb32)
    IN  IF name \in DOMAIN m
        THEN [err |-> "nil", data |-> <<m[name].data>>]
        ELSE [err |-> "nil", data |-> <<Slice(<<>>, 0)>>]

\* File.getFileBlockData(name): a reader over the data of the block stored
\* under name, or the "not found" error.
getFileBlockData(ps, fb64, fb32, name) ==
    LET m == BlocksOf(ps, fb64, fb32)
    IN  IF name \in DOMAIN m
        THEN [err |-> "nil", data |-> <<m[name].data>>]
        ELSE [err |-> "not found", data |-> <<>>]

\* ------------------------------------------------------------------- schema

\* The loop of readSDNA without currName.Reset(): a name keeps the bytes of
\* the names before it.
RECURSIVE ScanNamesNoReset(_, _, _, _, _)
ScanNamesNoReset(data, p, count, cur, names) ==
    IF Len(names) >= count
    THEN [err |-> "nil", names |-> names]
    ELSE LET rb == readNextBytes("Reader", data, p, 1)
         IN  IF rb.err # "nil"
             THEN [err |-> rb.err, names |-> <<>>]
             ELSE IF At(rb.bytes, 1) = 0
             THEN ScanNamesNoReset(data, rb.pos, count, cur, Append(names, cur))
             ELSE ScanNamesNoReset(data, rb.pos, count,
                                   Append(cur, At(rb.bytes, 1)), names)

\* The loop of readSDNA: one byte per readNextBytes call on the bytes.Reader,
\* a NUL ends the current name; io.EOF before count names is returned as is.
RECURSIVE ScanNames(_, _, _, _, _)
ScanNames(data, p, count, cur, names) ==
    IF Len(names) >= count
    THEN [err |-> "nil", names |-> names]
    ELSE LET rb == readNextBytes("Reader", data, p, 1)
         IN  IF rb.err # "nil"
             THEN [err |-> rb.err, names |-> <<>>]
             ELSE IF At(rb.bytes, 1) = 0
             THEN ScanNames(data, rb.pos, count, <<>>, Append(names, cur))
             ELSE ScanNames(data, rb.pos, count,
                            Append(cur, At(rb.bytes, 1)), names)

\* File.readSDNA: the DNA1 block's identifier, name tag, name count and names.
readSDNA(ord, ps, fb64, fb32) ==
    LET g == getFileBlockData(ps, fb64, fb32, DNA1)
    IN  IF g.err # "nil" THEN [err |-> g.err, sdna |-> <<>>]
        ELSE
        LET data == g.data[1]
            r1 == read("Reader", data, 0, 4)
            r2 == read("Reader", data, r1.pos, 4)
            r3 == read("Reader", data, r2.pos, 4)
            NumNames == Uint32(ord, Field(r3.bytes, 1, 4))
            sn == ScanNames(data, r3.pos, NumNames, <<>>, <<>>)
        IN  IF r1.err # "nil"
            THEN [err |-> "unable to read sdna identifier", sdna |-> <<>>]
            ELSE IF r2.err # "nil"
            THEN [err |-> "unable to read sdna NameID", sdna |-> <<>>]
            ELSE IF r3.err # "nil"
            THEN [err |-> "unable to read sdna NumNames", sdna |-> <<>>]
            ELSE IF sn.err # "nil"
            THEN [err |-> sn.err, sdna |-> <<>>]
            ELSE [err |-> "nil",
                  sdna |-> <<[Identifier |-> Field(r1.bytes, 1, 4),
                              NameID     |-> Field(r2.bytes, 1, 4),
                              NumNames   |-> NumNames,
                              Names      |-> sn.names]>>]

\* ------------------------------------------------------------------ inputs

RECURSIVE BigEndianBytes(_, _)
BigEndianBytes(v, w) ==
    IF w = 0 THEN <<>> ELSE Append(BigEndianBytes(v \div 256, w - 1), v % 256)

\* An unsigned integer of w bytes as the writer stores it in byte order en
\* ('V' big endian, anything else little endian).
EncodeUint(en, v, w) ==
    IF en = Capital_V THEN BigEndianBytes(v, w) ELSE Reverse(BigEndianBytes(v, w))

\* rawHeader of the tests: identifier, pointer size byte, endianness byte,
\* version.
rawHeader(identifier, pointerSize, endianness, version) ==
    identifier \o <<pointerSize, endianness>> \o version

PointerBytes == {95, 45}
EndianBytes == {118, 86}
DigitBytes == 48..57
Version280 == <<50, 56, 48>>
NOBLEND == <<78, 79, 66, 76, 69, 78, 68>>
DATA == <<68, 65, 84, 65>>
ENDB == <<69, 78, 68, 66>>
GR == <<71, 82, 0, 0>>
SDNA == <<83, 68, 78, 65>>
NAME == <<78, 65, 77, 69>>

\* The payloads a block of the model carries: n plain bytes, or a schema
\* payload (identifier, name tag, name count, packed names).
PlainPayload(n) == [i \in 1..n |-> 6 + i]

BodyChoices ==
    {[code |-> DATA, sdna |-> FALSE, count |-> 0, bytes |-> PlainPayload(n)] :
        n \in 1..MaxPayload}
    \cup {[code |-> GR, sdna |-> FALSE, count |-> 0, bytes |-> <<>>]}
    \cup {[code |-> DNA1, sdna |-> TRUE, count |-> 2, bytes |-> bs] :
            bs \in {<<97, 98, 0, 0, 84>>, <<97, 0, 98>>}}

Terminal == [code |-> ENDB, sdna |-> FALSE, count |-> 0, bytes |-> <<>>]

PayloadOf(c, en) ==
    IF c.sdna THEN SDNA \o NAME \o EncodeUint(en, c.count, 4) \o c.bytes
    ELSE c.bytes

\* A block as the writer frames it (FileBlockHeader64 / FileBlockHeader32
\* followed by the payload); the block at index i has the address i.
EncodeBlock(ps, en, c, i) ==
    c.code \o EncodeUint(en, Len(PayloadOf(c, en)), 4)
           \o EncodeUint(en, i, IF ps = Underscore THEN 4 ELSE 8)
           \o EncodeUint(en, 0, 4) \o EncodeUint(en, 1, 4)
           \o PayloadOf(c, en)

RECURSIVE EncodeBlocks(_, _, _, _)
EncodeBlocks(ps, en, cs, i) ==
    IF i > Len(cs) THEN <<>>
    ELSE EncodeBlock(ps, en, cs[i], i) \o EncodeBlocks(ps, en, cs, i + 1)

SeqsUpTo(S, n) == UNION {[1..k -> S] : k \in 0..n}

\* A stream with its last cut bytes missing, or with the bytes trail after it.
Modified(bs, cut, trail) ==
    IF cut > 0 THEN SubSeq(bs, 1, IF Len(bs) > cut THEN Len(bs) - cut ELSE 0)
    ELSE bs \o trail

\* Files with a valid header, up to MaxBlocks blocks and, optionally, the
\* terminal block; the stream ends there, or
\* up to MaxCut bytes earlier, or one byte later.
BlockInputs ==
    {Modified(rawHeader(BLENDER, ps, en, Version280)
              \o EncodeBlocks(ps, en, IF term THEN Append(body, Terminal)
                                       ELSE body, 1),
              md[1], md[2]) :
        ps \in PointerBytes, en \in EndianBytes,
        body \in SeqsUpTo(BodyChoices, MaxBlocks), term \in BOOLEAN,
        md \in ({<<c, <<>>>> : c \in 0..MaxCut} \cup {<<0, <<1>>>>})}

\* Every valid header, and headers with a wrong identifier or sentinel, cut
\* to any length.
HeaderInputs ==
    {rawHeader(BLENDER, ps, en, <<a, b, c>>) :
        ps \in PointerBytes, en \in EndianBytes,
        a \in DigitBytes, b \in DigitBytes, c \in DigitBytes}
    \cup {SubSeq(rawHeader(id, ps, en, Version280), 1, n) :
            id \in {BLENDER, NOBLEND}, ps \in PointerBytes \cup {120, 0},
            en \in EndianBytes \cup {120}, n \in 0..HeaderLen}

Inputs == BlockInputs \cup HeaderInputs

\* ------------------------------------------------------------------- state

VARIABLES
    input,          \* the bytes the io.Reader f.r delivers
    pos,            \* how many of them have been read
    pc,             \* "start": File{r: r}; "nofile": NewFile returned an error;
                    \* "open": a File, no call running; "scanning": inside the
                    \* loop of readFileBlocks; "panicked"
    header,         \* f.header
    order,          \* f.order
    pointerSize,    \* f.pointerSize
    fileBlocks64,   \* f.fileBlocks64
    fileBlocks32,   \* f.fileBlocks32
    result,         \* what the last call returned
    framed          \* history: the blocks readFileBlocks stored, in stream order

vars == <<input, pos, pc, header, order, pointerSize, fileBlocks64,
          fileBlocks32, result, framed>>

\* The reader f.r as a source of bytes.
Stream == Slice(input, Len(input))

Returned(op, err, eofAt, sdna) ==
    [op |-> op, err |-> err, eofAt |-> eofAt, sdna |-> sdna]

Init ==
    /\ input \in Inputs
    /\ pos = 0
    /\ pc = "start"
    /\ header = <<>>
    /\ order = "nil"
    /\ pointerSize = 0
    /\ fileBlocks64 = NilMap
    /\ fileBlocks32 = NilMap
    /\ result = Returned("none", "nil", "none", <<>>)
    /\ framed = <<>>

\* NewFile(r): readHeader on File{r: r}, then the block map of the pointer
\* size; on an error no File is returned.
NewFile ==
    /\ pc = "start"
    /\ LET rh == readHeader(Stream, pos)
       IN  /\ pos' = rh.pos
           /\ result' = Returned("NewFile", rh.err, "none", <<>>)
           /\ IF rh.err # "nil"
              THEN /\ pc' = "nofile"
                   /\ UNCHANGED <<header, order, pointerSize, fileBlocks64,
                                  fileBlocks32>>
              ELSE /\ pc' = "open"
                   /\ header' = rh.header
                   /\ order' = rh.order
                   /\ pointerSize' = rh.pointerSize
                   /\ fileBlocks64' = IF rh.pointerSize = 64 THEN MakeMap
                                      ELSE fileBlocks64
                   /\ fileBlocks32' = IF rh.pointerSize = 64 THEN fileBlocks32
                                      ELSE MakeMap
    /\ UNCHANGED <<input, framed>>

\* File.read(n, &data), called on a File literal as in TestFile_readPanic
\* (n = 1) or, once the File is open, through readFileBlockHeader64 or
\* readFileBlockHeader32 for the header length of the file's pointer size.
FileRead(n) ==
    /\ pc \in {"start", "open"}
    /\ pc = "open" =>
          n = (IF pointerSize = 64 THEN BlockHeaderLen64 ELSE BlockHeaderLen32)
    /\ LET r == File_read(order, Stream, pos, n)
       IN  IF r.panic
           THEN /\ pc' = "panicked"
                /\ UNCHANGED <<pos, result>>
           ELSE /\ pc' = pc
                /\ pos' = r.pos
                /\ result' = Returned("read", r.err, "none", <<>>)
    /\ UNCHANGED <<input, header, order, pointerSize, fileBlocks64,
                   fileBlocks32, framed>>

\* What one turn of the loop of readFileBlocks does after the block header hr
\* was read without error: the payload is read and the block stored under its
\* code in the map fb.
StoreBlock(hr, fb) ==
    LET db == readNextBytes("Buffer", Stream, hr.pos, hr.header.Size)
        code == byteSliceToString(hr.header.Code)
        blk == [header |-> hr.header, data |-> db.bytes]
    IN  IF db.err # "nil"
        THEN [ret |-> TRUE, panic |-> FALSE, err |-> db.err, pos |-> db.pos,
              fb |-> fb, log |-> framed]
        ELSE IF ~fb.alloc
        THEN [ret |-> FALSE, panic |-> TRUE, err |-> "nil", pos |-> db.pos,
              fb |-> fb, log |-> framed]
        ELSE [ret |-> FALSE, panic |-> FALSE, err |-> "nil", pos |-> db.pos,
              fb |-> MapPut(fb, code, blk),
              log |-> Append(framed, [code |-> code, header |-> hr.header,
                                      data |-> db.bytes, off |-> hr.pos])]

\* One turn of the loop of readFileBlocks in a file of pointer size 64: the
\* end of the stream at a block header returns nil, any other error is
\* returned.
ScanBlock64 ==
    /\ pc \in {"start", "open", "scanning"}
    /\ pointerSize = 64
    /\ LET hr == readFileBlockHeader64(order, Stream, pos)
           st == StoreBlock(hr, fileBlocks64)
       IN  IF hr.panic
           THEN /\ pc' = "panicked"
                /\ UNCHANGED <<pos, result, fileBlocks64, framed>>
           ELSE IF hr.err # "nil"
           THEN /\ pc' = "open"
                /\ pos' = hr.pos
                /\ result' = Returned("readFileBlocks",
                                      IF hr.err = "EOF" THEN "nil" ELSE hr.err,
                                      "header", <<>>)
                /\ UNCHANGED <<fileBlocks64, framed>>
           ELSE /\ pc' = IF st.panic THEN "panicked"
                         ELSE IF st.ret THEN "open" ELSE "scanning"
                /\ pos' = st.pos
                /\ result' = Returned("readFileBlocks",
                                      IF st.ret THEN st.err ELSE "pending",
                                      IF st.ret THEN "payload" ELSE "none", <<>>)
                /\ fileBlocks64' = st.fb
                /\ framed' = st.log
    /\ UNCHANGED <<input, header, order, pointerSize, fileBlocks32>>

\* One turn of the loop of readFileBlocks in a file of another pointer size:
\* every error of the header read is returned, the end of the stream included.
ScanBlock32 ==
    /\ pc \in {"start", "open", "scanning"}
    /\ pointerSize # 64
    /\ LET hr == readFileBlockHeader32(order, Stream, pos)
           st == StoreBlock(hr, fileBlocks32)
       IN  IF hr.panic
           THEN /\ pc' = "panicked"
                /\ UNCHANGED <<pos, result, fileBlocks32, framed>>
           ELSE IF hr.err # "nil"
           THEN /\ pc' = "open"
                /\ pos' = hr.pos
                /\ result' = Returned("readFileBlocks", hr.err, "header", <<>>)
                /\ UNCHANGED <<fileBlocks32, framed>>
           ELSE /\ pc' = IF st.panic THEN "panicked"
                         ELSE IF st.ret THEN "open" ELSE "scanning"
                /\ pos' = st.pos
                /\ result' = Returned("readFileBlocks",
                                      IF st.ret THEN st.err ELSE "pending",
                                      IF st.ret THEN "payload" ELSE "none", <<>>)
                /\ fileBlocks32' = st.fb
                /\ framed' = st.log
    /\ UNCHANGED <<input, header, order, pointerSize, fileBlocks64>>

\* File.readSDNA, on a File literal or an open File.
ReadSDNA ==
    /\ pc \in {"start", "open"}
    /\ LET r == readSDNA(order, pointerSize, fileBlocks64, fileBlocks32)
       IN  result' = Returned("readSDNA", r.err, "none", r.sdna)
    /\ UNCHANGED <<input, pos, pc, header, order, pointerSize, fileBlocks64,
                   fileBlocks32, framed>>

ReadLens == {1, BlockHeaderLen32, BlockHeaderLen64}

Next ==
    \/ NewFile
    \/ \E n \in ReadLens : FileRead(n)
    \/ ScanBlock64
    \/ ScanBlock32
    \/ ReadSDNA

Spec == Init /\ [][Next]_vars

\* ------------------------------------------------------------------ claims

Last(q) == q[Len(q)]

\* NewFile has returned, with a File or with an error.
NewFileReturned == pc \in {"nofile", "open", "scanning"}

\* The blocks a lookup by code yields: the catalog keeps one block per code.
CodeLookup(c) ==
    LET m == BlocksOf(pointerSize, fileBlocks64, fileBlocks32)
    IN  IF c \in DOMAIN m THEN <<m[c]>> ELSE <<>>

\* The blocks of the stream that carried code c, in stream order.
FramedWith(c) ==
    LET hit(b) == b.code = c
        blk(b) == [header |-> b.header, data |-> b.data]
        q == SelectSeq(framed, hit)
    IN  [i \in 1..Len(q) |-> blk(q[i])]

ValidHeader(bs) ==
    /\ Len(bs) >= HeaderLen
    /\ SubSeq(bs, 1, IdentifierLen) = BLENDER
    /\ bs[8] \in PointerBytes
    /\ bs[9] \in EndianBytes
    /\ \A i \in 10..12 : bs[i] \in DigitBytes

UniqueAddresses ==
    \A i, j \in DOMAIN framed :
        framed[i].header.OldMemoryAddress = framed[j].header.OldMemoryAddress
            => i = j

\* C1: after readFileBlocks has returned on a stream of blocks with unique
\* addresses whose last block is the terminal block, the lookup of every
\* code yields every block that carried the code, in stream order.
C1_AllBlocksByCode ==
    (/\ ValidHeader(input)
     /\ pc = "open"
     /\ result.op = "readFileBlocks"
     /\ framed # <<>>
     /\ Last(framed).code = ENDB
     /\ UniqueAddresses)
    => \A i \in DOMAIN framed :
          CodeLookup(framed[i].code) = FramedWith(framed[i].code)

\* C2: once readFileBlocks has stored a block with the code ENDB, the scan
\* stops: the call reads nothing more from the stream and stores nothing
\* more in the catalog.
C2_StopsAtTerminal ==
    [][(/\ ValidHeader(input)
        /\ pc = "scanning"
        /\ framed # <<>>
        /\ Last(framed).code = ENDB)
        => /\ pos' = pos
           /\ framed' = framed
           /\ fileBlocks64' = fileBlocks64
           /\ fileBlocks32' = fileBlocks32]_vars

\* C3: when readFileBlocks finds the stream exhausted at a block header, it
\* returns success exactly if the last block read has the code ENDB.
C3_EndOfStream ==
    (ValidHeader(input) /\ result.op = "readFileBlocks"
                        /\ result.eofAt = "header")
    => (result.err = "nil" <=> (framed # <<>> /\ Last(framed).code = ENDB))

\* C4: every block stored holds exactly Size bytes taken from the stream; a
\* header that declares more bytes than remain stores no block.
C4_PayloadExact ==
    ValidHeader(input) => \A i \in DOMAIN framed :
        LET b == framed[i]
        IN  /\ b.off + b.header.Size <= Len(input)
            /\ b.data.len = b.header.Size
            /\ b.data.read = SubSeq(input, b.off + 1, b.off + b.header.Size)

\* C5: NewFile on a stream whose first 7 bytes are not "BLENDER" returns
\* the invalid identifier error and no File.
C5_InvalidIdentifier ==
    (/\ NewFileReturned
     /\ Len(input) >= IdentifierLen
     /\ SubSeq(input, 1, IdentifierLen) # BLENDER)
    => /\ pc = "nofile"
       /\ result = Returned("NewFile", "invalid identifier", "none", <<>>)
       /\ header = <<>>

C5_Witness ==
    /\ pc = "nofile"
    /\ Len(input) = HeaderLen
    /\ SubSeq(input, 1, IdentifierLen) = NOBLEND
    /\ input[8] = 45 /\ input[9] = 118
    /\ result.err = "invalid identifier"

\* C6: NewFile on a valid header succeeds, the stored header re-encodes to
\* the 12 input bytes, the pointer size is 32 for '_' and 64 for '-', the
\* byte order big endian for 'V' and little endian for 'v'.
C6_HeaderRoundTrip ==
    (NewFileReturned /\ ValidHeader(input))
    => /\ pc # "nofile"
       /\ Len(header) = 1
       /\ rawHeader(header[1].Identifier, header[1].PointerSize,
                    header[1].Endianness, header[1].Version)
              = SubSeq(input, 1, HeaderLen)
       /\ pointerSize = 32 <=> input[8] = 95
       /\ pointerSize = 64 <=> input[8] = 45
       /\ order = "BigEndian" <=> input[9] = 86
       /\ order = "LittleEndian" <=> input[9] = 118

C6_Witness ==
    /\ pc = "open"
    /\ result.op = "NewFile"
    /\ ValidHeader(input)
    /\ input[8] = 95 /\ input[9] = 86
    /\ SubSeq(input, 10, 12) = <<49, 48, 57>>
    /\ pointerSize = 32 /\ order = "BigEndian"

\* C7: NewFile rejects a header with the right identifier whose pointer
\* size byte is neither '_' nor '-' or whose byte order byte is neither 'v'
\* nor 'V'.
C7_SentinelsChecked ==
    (/\ NewFileReturned
     /\ Len(input) >= HeaderLen
     /\ SubSeq(input, 1, IdentifierLen) = BLENDER
     /\ (input[8] \notin PointerBytes \/ input[9] \notin EndianBytes))
    => pc = "nofile" /\ result.err # "nil"

\* C8: NewFile fails on a stream of fewer than 12 bytes, and a header read
\* that succeeds has consumed exactly 12 bytes.
C8_TwelveBytes ==
    NewFileReturned
    => /\ Len(input) < HeaderLen => (pc = "nofile" /\ result.err # "nil")
       /\ (pc = "open" /\ result.op = "NewFile") => pos = HeaderLen

\* The codes a caller may look up: those of the model's blocks.
Codes == {byteSliceToString(c) : c \in {DATA, ENDB, GR, DNA1}} \cup {<<1>>}

\* C9: readSDNA on a catalog without a DNA1 block returns the not found
\* error and no schema, and leaves the catalog as it was: every code is
\* fetched with the same result as before.
C9_MissingSchema ==
    [][(ReadSDNA /\ DNA1 \notin DOMAIN BlocksOf(pointerSize, fileBlocks64,
                                                 fileBlocks32))
        => /\ result'.err = "not found"
           /\ result'.sdna = <<>>
           /\ fileBlocks64' = fileBlocks64
           /\ fileBlocks32' = fileBlocks32
           /\ \A c \in Codes :
                 getFileBlockData(pointerSize', fileBlocks64', fileBlocks32', c)
                 = getFileBlockData(pointerSize, fileBlocks64, fileBlocks32, c)
      ]_vars

C9_Witness ==
    /\ pc = "open"
    /\ result.op = "readSDNA"
    /\ result.err = "not found"
    /\ Len(framed) = 2
    /\ getFileBlockData(pointerSize, fileBlocks64, fileBlocks32, DATA).err = "nil"
    /\ getFileBlockData(pointerSize, fileBlocks64, fileBlocks32, ENDB).err = "nil"

\* C10: File.read on a File whose byte order is nil panics: it returns
\* nothing and reads nothing from the stream.
C10_ReadPanics ==
    [][((\E n \in ReadLens : FileRead(n)) /\ order = "nil")
        => /\ pc' = "panicked"
           /\ pos' = pos
           /\ result' = result]_vars

C10_Witness ==
    /\ pc = "panicked"
    /\ order = "nil"
    /\ pos = 0
    /\ result.op = "none"
    /\ ValidHeader(input)

\* The payload of the DNA1 block of the catalog, byte by byte, and the part
\* of it that follows the name count.
SchemaPayload ==
    LET d == BlocksOf(pointerSize, fileBlocks64, fileBlocks32)[DNA1].data
    IN  Field(d, 1, d.len)

NameBytes == SubSeq(SchemaPayload, 13, Len(SchemaPayload))

DeclaredNames == Uint32(order, SubSeq(SchemaPayload, 9, 12))

NulPositions == {i \in 1..Len(NameBytes) : NameBytes[i] = 0}

\* The position of the k-th NUL after the count; 0 for k = 0.
NthNul(k) ==
    IF k = 0 THEN 0
    ELSE CHOOSE i \in NulPositions :
            Cardinality({j \in NulPositions : j <= i}) = k

\* C11: a readSDNA that succeeds returns exactly NumNames names, the k-th
\* being the bytes between the (k-1)-th and the k-th NUL after the count;
\* when the payload holds fewer than NumNames NULs after the count, readSDNA
\* returns an error and no name table.
C11_NameTable ==
    (/\ result.op = "readSDNA"
     /\ DNA1 \in DOMAIN BlocksOf(pointerSize, fileBlocks64, fileBlocks32)
     /\ Len(SchemaPayload) >= 12)
    => IF Cardinality(NulPositions) >= DeclaredNames
       THEN /\ result.err = "nil"
            /\ Len(result.sdna) = 1
            /\ result.sdna[1].NumNames = DeclaredNames
            /\ Len(result.sdna[1].Names) = DeclaredNames
            /\ \A k \in 1..DeclaredNames :
                  result.sdna[1].Names[k]
                  = SubSeq(NameBytes, NthNul(k - 1) + 1, NthNul(k) - 1)
       ELSE /\ result.err # "nil"
            /\ result.sdna = <<>>

C11_Witness ==
    /\ result.op = "readSDNA"
    /\ result.err = "nil"
    /\ Len(result.sdna) = 1
    /\ result.sdna[1].NumNames = 2
    /\ result.sdna[1].Names = <<(<<97, 98>>), <<>>>>
    /\ NameBytes = <<97, 98, 0, 0, 84>>

\* C12: a File that NewFile returned has, and keeps through every call of
\* readFileBlocks, readFileBlockHeader and readSDNA, its header and byte order
\* set, a pointer size of 32 or 64 and exactly the block map of that pointer
\* size; no call on it panics (a panic is met only on a File literal, whose
\* header and byte order are nil); a NewFile that returns an error returns
\* no File.
C12_OpenFile ==
    /\ pc \in {"open", "scanning"}
          => /\ Len(header) = 1
             /\ order \in {"LittleEndian", "BigEndian"}
             /\ pointerSize \in {32, 64}
             /\ fileBlocks64.alloc <=> pointerSize = 64
             /\ fileBlocks32.alloc <=> pointerSize = 32
    /\ pc = "panicked" => (header = <<>> /\ order = "nil")
    /\ (result.op = "NewFile" /\ result.err # "nil")
          => (pc = "nofile" /\ header = <<>>)
    /\ pc = "nofile" => (result.op = "NewFile" /\ result.err # "nil")

C12_Witness ==
    /\ pc = "open"
    /\ result.op = "readSDNA"
    /\ result.err = "nil"
    /\ Len(framed) = 3
    /\ pos = Len(input)
    /\ pointerSize = 32
    /\ order = "BigEndian"
    /\ fileBlocks32.alloc /\ ~fileBlocks64.alloc

====
